---- MODULE Spec2Model ----
(***************************************************************************)
(* A model of mezzanine/utils/views.py: is_editable, load_request_filter,  *)
(* get_request_filters, is_spam, paginate and set_cookie.  Each function  *)
(* is one call frame; a specification per function draws the arguments in  *)
(* its Init and runs the call.                                             *)
(***************************************************************************)
EXTENDS Integers, Sequences, FiniteSets, TLC

VARIABLES
    pc,                 \* position of the running call
    objects,            \* paginate: the sequence of objects
    page_num,           \* paginate: the requested page (an int or a str)
    per_page,           \* paginate: objects per page
    max_paging_links,   \* paginate: the bound on the visible links
    page,               \* paginate: the returned Page
    obj,                \* is_editable: the content object
    user,               \* is_editable: request.user
    editable,           \* is_editable: calls made and the value returned
    REQUEST_FILTERS,    \* settings.REQUEST_FILTERS, a sequence of paths
    verdicts,           \* what the filter loaded at each position answers
    request_filters,    \* get_request_filters: the instances loaded so far
    spam,               \* is_spam: paths loaded, filters consulted, outcome
    cookie,             \* set_cookie: the arguments and the clock
    response            \* set_cookie: the calls made on the response

vars == <<pc, objects, page_num, per_page, max_paging_links, page,
          obj, user, editable, REQUEST_FILTERS, verdicts, request_filters,
          spam, cookie, response>>

paginateVars == <<objects, page_num, per_page, max_paging_links, page>>
editableVars == <<obj, user, editable>>
spamVars == <<REQUEST_FILTERS, verdicts, request_filters, spam>>
cookieVars == <<cookie, response>>

\* Bounds of the model.
MaxObjects == 6
MaxPerPage == 2
MaxLinks == 4
MaxStrLen == 2

Min(a, b) == IF a <= b THEN a ELSE b
Max(a, b) == IF a >= b THEN a ELSE b

\* Python values a callable may answer with, and their truth value.
PyValues == {"True", "False", "None", "1", "0"}
Truthy(v) == v \in {"True", "1"}

\* seq[a:b] with Python's clamping of the two indices (step 1).
PySlice(seq, a, b) ==
    LET n == Len(seq)
        lo == IF a < 0 THEN Max(0, a + n) ELSE Min(a, n)
        hi == IF b < 0 THEN Max(0, b + n) ELSE Min(b, n)
    IN  IF lo >= hi THEN <<>> ELSE SubSeq(seq, lo + 1, hi)

(***************************************************************************)
(* paginate                                                                *)
(***************************************************************************)

Digits == {"0", "1", "2"}
StrChars == Digits \cup {"-", "x"}
DigitVal(c) == CASE c = "0" -> 0 [] c = "1" -> 1 [] c = "2" -> 2

RECURSIVE DigitsVal(_)
DigitsVal(s) ==
    IF s = <<>> THEN 0
    ELSE 10 * DigitsVal(SubSeq(s, 1, Len(s) - 1)) + DigitVal(s[Len(s)])

IsDigits(s) == Len(s) >= 1 /\ \A i \in 1..Len(s) : s[i] \in Digits

\* int(s) accepts an optional sign followed by at least one digit.
ParsesAsInt(s) ==
    \/ IsDigits(s)
    \/ Len(s) >= 2 /\ s[1] = "-" /\ IsDigits(Tail(s))

IntOfStr(s) == IF s[1] = "-" THEN 0 - DigitsVal(Tail(s)) ELSE DigitsVal(s)

IntArg(i) == [kind |-> "int", int |-> i, str |-> <<>>]
StrArg(s) == [kind |-> "str", int |-> 0, str |-> s]

Strings == UNION {[1..k -> StrChars] : k \in 0..MaxStrLen}
PageNums == {IntArg(i) : i \in -2..(MaxObjects + 2)} \cup {StrArg(s) : s \in Strings}

\* try: page_num = int(page_num) / except ValueError: page_num = 1
to_int(p) ==
    IF p.kind = "int" THEN p.int
    ELSE IF ParsesAsInt(p.str) THEN IntOfStr(p.str) ELSE 1

\* Paginator.num_pages with orphans = 0 and allow_empty_first_page = True.
num_pages(count, pp) ==
    LET hits == Max(1, count) IN (hits + pp - 1) \div pp

\* Paginator.validate_number raises EmptyPage outside 1..num_pages.
IsValidPage(N, number) == number >= 1 /\ number <= N

\* a fallback to the first page instead of the last
fallback_first(N) == 1

\* except (EmptyPage, InvalidPage): the page that is returned instead
fallback_number(N) == N

\* try: paginator.page(page_num) / except: paginator.page(num_pages)
page_number(N, number) ==
    IF IsValidPage(N, number) THEN number ELSE fallback_number(N)

\* Paginator.page: the slice of the objects that the page holds.
object_list(objs, pp, number) ==
    LET bottom == (number - 1) * pp
        top == IF bottom + pp >= Len(objs) THEN Len(objs) ELSE bottom + pp
    IN  PySlice(objs, bottom, top)

\* Paginator.page_range
page_range(N) == [i \in 1..N |-> i]

\* the start without the clamp at the last page
window_start_unclamped(N, number, M) ==
    Max(0, number - (M \div 2) - 1)

\* the start without the "- 1" that turns a page number into an index
window_start_shifted(N, number, M) ==
    Min(N - M, Max(0, number - (M \div 2)))

\* the start with the half rounded up
window_start_ceil(N, number, M) ==
    Min(N - M, Max(0, number - ((M + 1) \div 2) - 1))

\* start = min(num_pages - max_paging_links,
\*             max(0, number - (max_paging_links / 2) - 1))
window_start(N, number, M) ==
    Min(N - M, Max(0, number - (M \div 2) - 1))

\* whether the page range is cut down to a window
truncates(N, M) == N > M

visible_page_range(N, number, M) ==
    IF truncates(N, M)
    THEN LET start == window_start(N, number, M)
         IN  PySlice(page_range(N), start, start + M)
    ELSE page_range(N)

paginate(objs, p, pp, M) ==
    LET N == num_pages(Len(objs), pp)
        number == page_number(N, to_int(p))
    IN  [number |-> number,
         num_pages |-> N,
         object_list |-> object_list(objs, pp, number),
         visible_page_range |-> visible_page_range(N, number, M)]

NoPage == [number |-> 0, num_pages |-> 0, object_list |-> <<>>,
           visible_page_range |-> <<>>]

\* The frames of the functions a specification does not call.
IdlePaginate ==
    /\ objects = <<>> /\ page_num = IntArg(1) /\ per_page = 1
    /\ max_paging_links = 0 /\ page = NoPage
IdleEditable == obj = 0 /\ user = 0 /\ editable = 0
IdleSpam ==
    /\ REQUEST_FILTERS = <<>> /\ verdicts = <<>> /\ request_filters = <<>>
    /\ spam = 0
IdleCookie == cookie = 0 /\ response = <<>>

InitPaginate ==
    /\ pc = "paginate"
    /\ objects \in {[i \in 1..k |-> i] : k \in 0..MaxObjects}
    /\ page_num \in PageNums
    /\ per_page \in 1..MaxPerPage
    /\ max_paging_links \in 0..MaxLinks
    /\ page = NoPage
    /\ IdleEditable /\ IdleSpam /\ IdleCookie

Paginate ==
    /\ pc = "paginate"
    /\ page' = paginate(objects, page_num, per_page, max_paging_links)
    /\ pc' = "done"
    /\ UNCHANGED <<objects, page_num, per_page, max_paging_links>>
    /\ UNCHANGED <<editableVars, spamVars, cookieVars>>

SpecPaginate == InitPaginate /\ [][Paginate]_vars

(***************************************************************************)
(* is_editable                                                             *)
(***************************************************************************)

\* The models of the content objects: _meta.app_label and the codename
\* that _meta.get_change_permission() answers.
Models == {[app_label |-> "pages", change |-> "change_page"],
           [app_label |-> "blog", change |-> "change_blogpost"]}

Objs == [has_is_editable : BOOLEAN, handler_returns : PyValues, meta : Models]

\* Permission names, app_label + "." + codename.
PermName(app_label, codename) == <<app_label, ".", codename>>
AllPerms == {PermName(m.app_label, m.change) : m \in Models}
                \cup {PermName("pages", "delete_page")}

Users == [is_authenticated : BOOLEAN, site_permission : BOOLEAN,
          perms : SUBSET AllPerms]

PyBool(b) == IF b THEN "True" ELSE "False"

\* perm = obj._meta.app_label + "." + obj._meta.get_change_permission()
change_perm(o) == PermName(o.meta.app_label, o.meta.change)

\* the three checks without the one of the authentication
user_checks_unauthenticated(u, perm) ==
    IF ~u.site_permission
    THEN [calls |-> <<"has_site_permission">>, returned |-> "False"]
    ELSE [calls |-> <<"has_site_permission", "has_perm">>,
          returned |-> PyBool(perm \in u.perms)]

\* request.user.is_authenticated() and has_site_permission(request.user)
\* and request.user.has_perm(perm), with the short circuit of "and"
user_checks(u, perm) ==
    IF ~u.is_authenticated
    THEN [calls |-> <<"is_authenticated">>, returned |-> "False"]
    ELSE IF ~u.site_permission
    THEN [calls |-> <<"is_authenticated", "has_site_permission">>,
          returned |-> "False"]
    ELSE [calls |-> <<"is_authenticated", "has_site_permission", "has_perm">>,
          returned |-> PyBool(perm \in u.perms)]

is_editable(o, u) ==
    IF o.has_is_editable
    THEN [calls |-> <<"obj.is_editable">>, returned |-> o.handler_returns]
    ELSE user_checks(u, change_perm(o))

InitEditable ==
    /\ pc = "is_editable"
    /\ obj \in Objs
    /\ user \in Users
    /\ editable = [calls |-> <<>>, returned |-> "None"]
    /\ IdlePaginate /\ IdleSpam /\ IdleCookie

IsEditable ==
    /\ pc = "is_editable"
    /\ editable' = is_editable(obj, user)
    /\ pc' = "done"
    /\ UNCHANGED <<obj, user>>
    /\ UNCHANGED <<paginateVars, spamVars, cookieVars>>

SpecEditable == InitEditable /\ [][IsEditable]_vars

(***************************************************************************)
(* load_request_filter, get_request_filters, is_spam                       *)
(***************************************************************************)

MaxFilters == 3

\* The importable modules and the attributes each defines.
ModuleNames == {<<"a">>, <<"p", ".", "m">>}
ModuleAttrs(name) ==
    IF name = <<"a">> THEN {<<"F">>, <<"G">>} ELSE {<<"G">>}

\* The paths a REQUEST_FILTERS setting is drawn from.
Paths == {<<"a", ".", "F">>,            \* a class of module a
          <<"p", ".", "m", ".", "G">>,  \* a class of module p.m
          <<"a", ".", "H">>,            \* module a defines no H
          <<"b", ".", "F">>,            \* there is no module b
          <<".", "F">>,                 \* an empty module name
          <<"a", "F">>}                 \* no dot at all

\* str.find: the 0-based index of the first occurrence, or -1.
find(s, c) ==
    LET at == {i \in 1..Len(s) : s[i] = c}
    IN  IF at = {} THEN -1
        ELSE (CHOOSE i \in at : \A j \in at : i <= j) - 1

\* str.rfind: the 0-based index of the last occurrence, or -1.
rfind(s, c) ==
    LET at == {i \in 1..Len(s) : s[i] = c}
    IN  IF at = {} THEN -1
        ELSE (CHOOSE i \in at : \A j \in at : i >= j) - 1

\* a split at the first dot instead of the last
split_path_first(path) ==
    LET i == find(path, ".")
    IN  [module |-> PySlice(path, 0, i),
         attr |-> PySlice(path, i + 1, Len(path))]

\* i = path.rfind('.'); module, attr = path[:i], path[i + 1:]
split_path(path) ==
    LET i == rfind(path, ".")
    IN  [module |-> PySlice(path, 0, i),
         attr |-> PySlice(path, i + 1, Len(path))]

\* import_module: ValueError for an empty name, ImportError for a module
\* that does not exist.
import_module(name) ==
    IF name = <<>> THEN "ValueError"
    ELSE IF name \in ModuleNames THEN "module"
    ELSE "ImportError"

\* the exception that leaves the two try blocks
raised(exc) ==
    IF exc \in {"ImportError", "ValueError", "AttributeError"}
    THEN "ImproperlyConfigured" ELSE exc

load_request_filter(path) ==
    LET parts == split_path(path)
        mod == import_module(parts.module)
    IN  IF mod # "module"
        THEN [outcome |-> raised(mod), cause |-> mod,
              module |-> parts.module, attr |-> parts.attr]
        ELSE IF parts.attr \notin ModuleAttrs(parts.module)
        THEN [outcome |-> raised("AttributeError"), cause |-> "AttributeError",
              module |-> parts.module, attr |-> parts.attr]
        ELSE [outcome |-> "instance", cause |-> "none",
              module |-> parts.module, attr |-> parts.attr]

\* a lazy loop that hands over each filter as soon as it is loaded
first_loaded(paths, loaded) == Len(loaded) >= Min(1, Len(paths))

\* the loop of get_request_filters ends when every path has been loaded
all_loaded(paths, loaded) == Len(loaded) = Len(paths)

\* a test for the value True itself instead of a true value
flags_only_true(answer) == answer = "True"

\* if filter.is_spam(request, form, url):
flags(answer) == Truthy(answer)

\* an iteration from the last filter to the first
next_filter_reversed(filters, k) == filters[Len(filters) + 1 - k]

\* for filter in get_request_filters(): the filter the k-th iteration takes
next_filter(filters, k) == filters[k]

InitSpam ==
    /\ pc = "load"
    /\ REQUEST_FILTERS \in UNION {[1..k -> Paths] : k \in 0..MaxFilters}
    /\ verdicts \in [1..Len(REQUEST_FILTERS) -> PyValues]
    /\ request_filters = <<>>
    /\ spam = [loaded |-> <<>>, consulted |-> <<>>, result |-> "running"]
    /\ IdlePaginate /\ IdleEditable /\ IdleCookie

\* One iteration of get_request_filters: load the next path and append the
\* instance, or leave is_spam with the exception load_request_filter raises.
LoadFilter ==
    /\ pc = "load"
    /\ ~all_loaded(REQUEST_FILTERS, spam.loaded)
    /\ LET k == Len(spam.loaded) + 1
           r == load_request_filter(REQUEST_FILTERS[k])
       IN  /\ IF r.outcome = "instance"
              THEN /\ request_filters' = Append(request_filters,
                          [module |-> r.module, attr |-> r.attr, id |-> k])
                   /\ spam' = [spam EXCEPT !.loaded = Append(@, r)]
                   /\ pc' = "load"
              ELSE /\ request_filters' = request_filters
                   /\ spam' = [spam EXCEPT !.loaded = Append(@, r),
                                           !.result = r.outcome]
                   /\ pc' = "done"
    /\ UNCHANGED <<REQUEST_FILTERS, verdicts>>
    /\ UNCHANGED <<paginateVars, editableVars, cookieVars>>

\* return request_filters
FiltersLoaded ==
    /\ pc = "load"
    /\ all_loaded(REQUEST_FILTERS, spam.loaded)
    /\ pc' = "consult"
    /\ UNCHANGED <<spamVars, paginateVars, editableVars, cookieVars>>

\* One iteration of the loop of is_spam.
ConsultFilter ==
    /\ pc = "consult"
    /\ Len(spam.consulted) < Len(request_filters)
    /\ LET filter == next_filter(request_filters, Len(spam.consulted) + 1)
           answer == verdicts[filter.id]
       IN  /\ spam' = [spam EXCEPT
                  !.consulted = Append(@, [filter |-> filter, answer |-> answer]),
                  !.result = IF flags(answer) THEN "True" ELSE @]
           /\ pc' = IF flags(answer) THEN "done" ELSE "consult"
    /\ UNCHANGED <<REQUEST_FILTERS, verdicts, request_filters>>
    /\ UNCHANGED <<paginateVars, editableVars, cookieVars>>

\* The loop ends without a return statement: the call answers None.
ReturnNone ==
    /\ pc = "consult"
    /\ Len(spam.consulted) >= Len(request_filters)
    /\ spam' = [spam EXCEPT !.result = "None"]
    /\ pc' = "done"
    /\ UNCHANGED <<REQUEST_FILTERS, verdicts, request_filters>>
    /\ UNCHANGED <<paginateVars, editableVars, cookieVars>>

NextSpam == LoadFilter \/ FiltersLoaded \/ ConsultFilter \/ ReturnNone

SpecSpam == InitSpam /\ [][NextSpam]_vars

(***************************************************************************)
(* set_cookie                                                              *)
(***************************************************************************)

MaxUnits == 2
MaxDays == 1

Minute == 60
Hour == 60 * Minute
Day == 24 * Hour

NoneArg == [kind |-> "None", int |-> 0]
SecondsArg(n) == [kind |-> "int", int |-> n]

ExpiryArgs == {NoneArg} \cup
    {SecondsArg(k * u) : k \in 0..MaxUnits, u \in {1, Minute, Hour, Day}}

\* Readings of datetime.utcnow(), in seconds since the epoch.
Clock == {d * Day + s : d \in 0..MaxDays, s \in {0, 12 * Hour, Day - 1}}

\* Cookie values, as sequences of code points ("a" and e-acute).
CookieValues == UNION {[1..k -> {97, 233}] : k \in 0..1}

\* the default taken for every false value, 0 included
expiry_or_default_if_false(e) ==
    IF e.kind = "None" \/ e.int = 0 THEN 365 * 24 * 60 * 60 ELSE e.int

\* if expiry_seconds is None: expiry_seconds = 365 * 24 * 60 * 60
expiry_or_default(e) ==
    IF e.kind = "None" THEN 365 * 24 * 60 * 60 ELSE e.int

\* datetime.strftime(..., "%a, %d-%b-%Y %H:%M:%S GMT"): the date, as the
\* number of the day, and the time of the day in its three fields.
strftime(t) ==
    [date |-> t \div Day,
     H |-> (t % Day) \div Hour,
     M |-> (t % Hour) \div Minute,
     S |-> t % Minute]

\* value.encode("utf-8"), for code points below 0x800
RECURSIVE encode_utf8(_)
encode_utf8(value) ==
    LET Bytes(c) == IF c < 128 THEN <<c>>
                    ELSE <<192 + (c \div 64), 128 + (c % 64)>>
    IN  IF value = <<>> THEN <<>>
        ELSE Bytes(Head(value)) \o encode_utf8(Tail(value))

set_cookie(c) ==
    [name |-> c.name,
     value |-> encode_utf8(c.value),
     expires |-> strftime(c.now + expiry_or_default(c.expiry_seconds)),
     secure |-> c.secure]

InitCookie ==
    /\ pc = "set_cookie"
    /\ cookie \in [name : {"sessionid", "csrftoken"}, value : CookieValues,
                   expiry_seconds : ExpiryArgs, secure : BOOLEAN, now : Clock]
    /\ response = <<>>
    /\ IdlePaginate /\ IdleEditable /\ IdleSpam

SetCookie ==
    /\ pc = "set_cookie"
    /\ response' = Append(response, set_cookie(cookie))
    /\ pc' = "done"
    /\ UNCHANGED <<cookie, paginateVars, editableVars, spamVars>>

SpecCookie == InitCookie /\ [][SetCookie]_vars

(***************************************************************************)
(* Properties of paginate                                                  *)
(***************************************************************************)

Elems(seq) == {seq[i] : i \in DOMAIN seq}
Run(first, len) == [i \in 1..len |-> first + i - 1]
Returned == pc = "done"
CountBefore(seq, n) == Cardinality({i \in DOMAIN seq : seq[i] < n})
CountAfter(seq, n) == Cardinality({i \in DOMAIN seq : seq[i] > n})

\* C1: for N >= 1 pages, any current page and max_paging_links M >= 0, the
\* visible_page_range of the returned page has exactly min(N, M) entries,
\* hence at most M.
C1_RangeLength ==
    Returned =>
        /\ page.num_pages >= 1
        /\ Len(page.visible_page_range) = Min(page.num_pages, max_paging_links)
        /\ Len(page.visible_page_range) <= max_paging_links

C1_Witness ==
    /\ Returned
    /\ max_paging_links >= 2
    /\ page.num_pages > max_paging_links
    /\ page.number = page.num_pages
    /\ Len(page.visible_page_range) = max_paging_links

\* C2: for M >= 1 the visible_page_range of the returned page contains the
\* number of that page, also when the window is clamped at either end.
C2_ContainsCurrent ==
    (Returned /\ max_paging_links >= 1) =>
        /\ page.number \in 1..page.num_pages
        /\ page.number \in Elems(page.visible_page_range)

C2_Witness ==
    /\ Returned
    /\ max_paging_links >= 1
    /\ page.num_pages > max_paging_links
    /\ page.number = page.num_pages
    /\ page.visible_page_range[1] > 1
    /\ page.number \in Elems(page.visible_page_range)

\* The window of C3 for N pages, current page n and M links.
C3_Window(N, n, M) ==
    LET h == M \div 2
        s == Min(N - M, Max(0, n - h - 1))
        r == page.visible_page_range
    IN  /\ r = Run(s + 1, M)
        /\ (h + 1 <= n /\ n <= N - M + h + 1) =>
               /\ CountBefore(r, n) = h
               /\ CountAfter(r, n) = M - h - 1
        /\ n < h + 1 => r = Run(1, M)
        /\ n > N - M + h + 1 => r = Run(N - M + 1, M)

\* C3 as stated: whenever the range is truncated (N > M) it is the run
\* s+1 .. s+M with s = min(N - M, max(0, n - floor(M/2) - 1)); for
\* floor(M/2) + 1 <= n <= N - M + floor(M/2) + 1 exactly floor(M/2) numbers
\* precede n and M - floor(M/2) - 1 follow it; nearer the first page the
\* range is 1..M and nearer the last page N-M+1..N.
C3_Original ==
    (Returned /\ page.num_pages > max_paging_links) =>
        C3_Window(page.num_pages, page.number, max_paging_links)

\* C3 amended: the same statement for M >= 1 (with M = 0 the range is empty).
C3_CenteredWindow ==
    (Returned /\ page.num_pages > max_paging_links /\ max_paging_links >= 1) =>
        C3_Window(page.num_pages, page.number, max_paging_links)

C3_Witness ==
    /\ Returned
    /\ max_paging_links = 3
    /\ page.num_pages >= 5
    /\ page.number = 3
    /\ page.visible_page_range = <<2, 3, 4>>

\* C8: paginate returns an existing page: a page_num that is (or parses to)
\* an integer within 1..N gives that page, a string that does not parse as
\* an integer gives page 1, an integer outside 1..N (0 and negatives
\* included) gives the last page N, and no objects give N = 1 and page 1.
C8_ExistingPage ==
    Returned =>
        LET N == page.num_pages
            isInt == page_num.kind = "int" \/ ParsesAsInt(page_num.str)
            v == IF page_num.kind = "int" THEN page_num.int
                 ELSE IntOfStr(page_num.str)
        IN  /\ page.number \in 1..N
            /\ N = Max(1, (Len(objects) + per_page - 1) \div per_page)
            /\ (isInt /\ v \in 1..N) => page.number = v
            /\ ~isInt => page.number = 1
            /\ (isInt /\ v \notin 1..N) => page.number = N
            /\ objects = <<>> => (N = 1 /\ page.number = 1)
            /\ page.object_list =
                   [i \in 1..Min(per_page, Len(objects) - (page.number - 1) * per_page)
                        |-> objects[(page.number - 1) * per_page + i]]

C8_Witness ==
    /\ Returned
    /\ page_num = IntArg(0)
    /\ page.num_pages >= 2
    /\ page.number = page.num_pages

(***************************************************************************)
(* Properties of is_editable                                               *)
(***************************************************************************)

UserChecks == {"is_authenticated", "has_site_permission", "has_perm"}

\* C4: with a custom is_editable handler the result is what the handler
\* returns and the user's authentication, site permission and model
\* permission are not consulted; otherwise the result is true exactly when
\* the user is authenticated, has site permission and has the change
\* permission of the object's model, so an unauthenticated user is never
\* reported as able to edit.
C4_Editable ==
    Returned =>
        IF obj.has_is_editable
        THEN /\ editable.returned = obj.handler_returns
             /\ Elems(editable.calls) \cap UserChecks = {}
        ELSE /\ Truthy(editable.returned) <=>
                    /\ user.is_authenticated
                    /\ user.site_permission
                    /\ PermName(obj.meta.app_label, obj.meta.change) \in user.perms
             /\ ~user.is_authenticated => ~Truthy(editable.returned)

C4_Witness ==
    /\ Returned
    /\ ~obj.has_is_editable
    /\ ~user.is_authenticated
    /\ user.site_permission
    /\ PermName(obj.meta.app_label, obj.meta.change) \in user.perms
    /\ editable.returned = "False"

(***************************************************************************)
(* Properties of load_request_filter and is_spam                           *)
(***************************************************************************)

Loads(i) == load_request_filter(REQUEST_FILTERS[i]).outcome = "instance"
AllLoad == \A i \in 1..Len(REQUEST_FILTERS) : Loads(i)
Flagging == {i \in 1..Len(REQUEST_FILTERS) : Truthy(verdicts[i])}
HasDot(path) == \E i \in 1..Len(path) : path[i] = "."

\* C5: when every path of REQUEST_FILTERS loads, is_spam returns True if
\* and only if at least one configured filter answers a true value; with
\* no filter configured, or none flagging, it returns None.
C5_SpamIffFlagged ==
    (Returned /\ AllLoad) =>
        /\ spam.result \in {"True", "None"}
        /\ spam.result = "True" <=> Flagging # {}
        /\ Flagging = {} => spam.result = "None"
        /\ REQUEST_FILTERS = <<>> => spam.result = "None"

C5_Witness ==
    /\ Returned
    /\ Len(REQUEST_FILTERS) = 2
    /\ verdicts = <<"0", "1">>
    /\ spam.result = "True"

\* C7: load_request_filter splits the path at its last dot into a module
\* and an attribute and either returns an instance of that attribute or
\* raises ImproperlyConfigured: an ImportError, a ValueError of the import
\* (an empty module name) and a missing attribute each become
\* ImproperlyConfigured, and then no instance is returned.
C7_LoadOrConfigurationError ==
    \A k \in 1..Len(spam.loaded) :
        LET r == spam.loaded[k]
            path == REQUEST_FILTERS[k]
        IN  /\ HasDot(path) =>
                   /\ r.module \o <<".">> \o r.attr = path
                   /\ ~HasDot(r.attr)
            /\ r.outcome \in {"instance", "ImproperlyConfigured"}
            /\ r.outcome = "instance" <=>
                   (r.module \in ModuleNames /\ r.attr \in ModuleAttrs(r.module))
            /\ r.outcome = "instance" =>
                   /\ k <= Len(request_filters)
                   /\ request_filters[k].module = r.module
                   /\ request_filters[k].attr = r.attr
            /\ (r.module = <<>> \/ r.module \notin ModuleNames
                    \/ r.attr \notin ModuleAttrs(r.module)) =>
                   /\ r.outcome = "ImproperlyConfigured"
                   /\ Len(request_filters) < k

C7_Witness ==
    /\ Len(spam.loaded) = 3
    /\ spam.loaded[1].outcome = "instance"
    /\ spam.loaded[1].module = <<"p", ".", "m">>
    /\ spam.loaded[2].outcome = "instance"
    /\ spam.loaded[3].cause = "ValueError"
    /\ spam.loaded[3].outcome = "ImproperlyConfigured"

\* C9: in one is_spam call the filters are consulted in the order of their
\* paths in REQUEST_FILTERS, each at most once; none listed after the first
\* flagging filter is consulted, and every filter listed before it has been
\* consulted and answered a false value.
C9_ConsultedInOrder ==
    LET c == spam.consulted
    IN  /\ Len(c) <= Len(REQUEST_FILTERS)
        /\ \A k \in 1..Len(c) :
               /\ c[k].filter.id = k
               /\ c[k].filter.module \o <<".">> \o c[k].filter.attr
                      = REQUEST_FILTERS[k]
               /\ c[k].answer = verdicts[k]
        /\ \A k \in 1..(Len(c) - 1) : ~Truthy(c[k].answer)
        /\ (Returned /\ spam.result = "True") =>
               /\ c # <<>>
               /\ Len(c) \in Flagging
               /\ \A i \in Flagging : Len(c) <= i
        /\ (Returned /\ spam.result = "None") => Len(c) = Len(REQUEST_FILTERS)

C9_Witness ==
    /\ Returned
    /\ Len(REQUEST_FILTERS) = 3
    /\ verdicts = <<"None", "True", "True">>
    /\ Len(spam.consulted) = 2
    /\ spam.result = "True"

\* C10: every configured filter is loaded before any is consulted: if a
\* path fails to load, is_spam raises ImproperlyConfigured without having
\* consulted any filter, even when an earlier filter would have flagged the
\* submission; loading stops at the first failing path.
C10_LoadBeforeConsult ==
    /\ spam.consulted # <<>> =>
           /\ Len(spam.loaded) = Len(REQUEST_FILTERS)
           /\ AllLoad
    /\ (Returned /\ ~AllLoad) =>
           /\ spam.result = "ImproperlyConfigured"
           /\ spam.consulted = <<>>
           /\ ~Loads(Len(spam.loaded))
           /\ \A i \in 1..(Len(spam.loaded) - 1) : Loads(i)

C10_Witness ==
    /\ Returned
    /\ Len(REQUEST_FILTERS) = 3
    /\ Loads(1) /\ ~Loads(2) /\ Loads(3)
    /\ Truthy(verdicts[1])
    /\ Len(spam.loaded) = 2
    /\ spam.result = "ImproperlyConfigured"
    /\ spam.consulted = <<>>

(***************************************************************************)
(* Properties of set_cookie                                                *)
(***************************************************************************)

\* The instant an expires value names, in seconds since the epoch.
TimeOf(e) == e.date * Day + e.H * Hour + e.M * Minute + e.S

\* C6: set_cookie calls response.set_cookie exactly once, with the given
\* name and secure flag and an expiry of the current UTC time plus
\* expiry_seconds; the default of 365*24*60*60 seconds is used only when
\* expiry_seconds is None, so an expiry_seconds of 0 expires at the current
\* time.
C6_CookieExpiry ==
    Returned =>
        /\ Len(response) = 1
        /\ response[1].name = cookie.name
        /\ response[1].secure = cookie.secure
        /\ response[1].expires.H \in 0..23
        /\ response[1].expires.M \in 0..59
        /\ response[1].expires.S \in 0..59
        /\ cookie.expiry_seconds.kind = "int" =>
               TimeOf(response[1].expires) = cookie.now + cookie.expiry_seconds.int
        /\ cookie.expiry_seconds.kind = "None" =>
               TimeOf(response[1].expires) = cookie.now + 365 * 24 * 60 * 60
        /\ cookie.expiry_seconds = SecondsArg(0) =>
               TimeOf(response[1].expires) = cookie.now

C6_Witness ==
    /\ Returned
    /\ cookie.expiry_seconds = SecondsArg(0)
    /\ cookie.now > 0
    /\ Len(response) = 1
    /\ TimeOf(response[1].expires) = cookie.now

====
